---- MODULE Spec2Model ----
(***************************************************************************)
(* Model of the sitemap generator (pages/sitemap.xml.ts: fetchSitemapData, *)
(* escapeXml, GET) and of the API client (src/lib/api.ts: searchMovies,    *)
(* getMovies).                                                             *)
(*                                                                         *)
(* Text is a sequence of characters (one-character strings; a literal of   *)
(* the templates may be kept as one multi-character piece).  The upstream  *)
(* API is the environment: every response it can give is drawn from a      *)
(* bounded set that depends on the server profile chosen in Init.          *)
(***************************************************************************)
EXTENDS Integers, Sequences, FiniteSets, TLC

VARIABLES
    env,        \* the upstream server profile and the site configuration
    pc,         \* position of each invocation of GET / fetchSitemapData
    allMovies,  \* fetchSitemapData: let allMovies   (one cell per frame)
    page,       \* fetchSitemapData: let page        (one cell per frame)
    hasMore,    \* fetchSitemapData: let hasMore     (one cell per frame)
    inflight,   \* upstream requests issued and not yet answered
    reqLog,     \* per invocation, the requests it issued, in order
    respLog,    \* per invocation, the movie-page responses it received
    catLog,     \* per invocation, the categories responses it received
    result,     \* per invocation, what fetchSitemapData returned
    response,   \* per invocation, what GET gave its caller
    api         \* one call of an api.ts function

vars == <<env, pc, allMovies, page, hasMore, inflight, reqLog, respLog, catLog,
          result, response, api>>

sitemapVars == <<pc, allMovies, page, hasMore, inflight, reqLog, respLog, catLog,
                 result, response>>

(***************************************************************************)
(* Bounds of the model.                                                    *)
(***************************************************************************)
MaxPages == 3          \* pages after which the arbitrary server stops saying hasNextPage
MaxCatalog == 5        \* largest small catalog of the faithful server
MaxPageSize == 3       \* largest small page size of the faithful server
NumInvocations == 2    \* concurrent GET invocations
MaxTagPages == 2       \* pages the per-invocation tagged server can serve

Invocations == 1..NumInvocations

(***************************************************************************)
(* Text.                                                                   *)
(***************************************************************************)
\* The JavaScript value undefined (a missing field), kept apart from every string.
Undef == <<"#undefined">>

\* String(undefined) inside a template literal.
Str(x) == IF x = Undef THEN <<"u", "n", "d", "e", "f", "i", "n", "e", "d">> ELSE x

\* JavaScript truthiness of a string-or-undefined value.
Truthy(x) == x # Undef /\ x # <<>>

RECURSIVE DecimalDigits(_)
DecimalDigits(n) ==
    LET d == <<"0", "1", "2", "3", "4", "5", "6", "7", "8", "9">>[(n % 10) + 1]
    IN  IF n < 10 THEN <<d>> ELSE DecimalDigits(n \div 10) \o <<d>>

\* String.prototype.replace(/c/g, r) for a one-character pattern c.
RECURSIVE ReplaceAll(_, _, _)
ReplaceAll(text, c, r) ==
    IF text = <<>> THEN <<>>
    ELSE (IF Head(text) = c THEN r ELSE <<Head(text)>>) \o ReplaceAll(Tail(text), c, r)

EntAmp == <<"&", "a", "m", "p", ";">>
EntLt == <<"&", "l", "t", ";">>
EntGt == <<"&", "g", "t", ";">>
EntQuot == <<"&", "q", "u", "o", "t", ";">>
EntApos == <<"&", "a", "p", "o", "s", ";">>

\* A slip in the order of the replacements: '&' is replaced last.
escapeXmlAmpLast(text) ==
    ReplaceAll(ReplaceAll(ReplaceAll(ReplaceAll(ReplaceAll(text,
        "<", EntLt), ">", EntGt), "\"", EntQuot), "'", EntApos), "&", EntAmp)

escapeXml(text) ==
    ReplaceAll(ReplaceAll(ReplaceAll(ReplaceAll(ReplaceAll(text,
        "&", EntAmp), "<", EntLt), ">", EntGt), "\"", EntQuot), "'", EntApos)

(***************************************************************************)
(* Records of the API (api.ts: Movie, Category, Pagination, APIResponse).  *)
(* Only the fields the sitemap reads are kept.                             *)
(***************************************************************************)
Specials == <<"&", "<", ">", "\"", "'">>

Movie(id, slug, title, thumbnail) ==
    [id |-> id, slug |-> slug, title |-> title, thumbnail |-> thumbnail]

Category(id, slug) == [id |-> id, slug |-> slug]

\* Movies the arbitrary server can serve: special characters in every text
\* field, a missing thumbnail, an empty thumbnail, a missing title, a missing slug.
MovieA == Movie(1, <<"a">>, Specials, <<"h", "&", "'">>)
MovieB == Movie(2, <<"b", "&", "<">>, <<"t">>, <<>>)
MovieC == Movie(3, <<"c">>, Undef, <<"h">>)
MovieD == Movie(4, Undef, <<"&", "l", "t", ";">>, Undef)

MovieData == {<<MovieA>>, <<MovieB, MovieD>>, <<MovieC>>}

CategoryA == Category(7, <<"x">>)
CategoryB == Category(12, <<"y", "&", ">">>)

CategoryData == {<<>>, <<CategoryA>>, <<CategoryA, CategoryB>>}

\* The n-th movie of the faithful server's catalog.
CatalogMovie(n) ==
    Movie(n, <<"m">> \o DecimalDigits(n), <<"t">>, IF n % 2 = 0 THEN <<"h">> ELSE <<>>)

\* The movie the tagged server serves to invocation i on page p.
TaggedMovie(i, p) ==
    Movie(i * 100 + p, <<"m">> \o DecimalDigits(i * 100 + p), <<"t">>, <<>>)

FaultKinds == {"networkFault", "notJson", "nullBody"}

\* A response to GET /movies?page=&limit=
MovieResponse(kind, success, hasData, data, hasPagination, hasNextPage, total, totalPages) ==
    [kind |-> kind, success |-> success, hasData |-> hasData, data |-> data,
     hasPagination |-> hasPagination, hasNextPage |-> hasNextPage,
     total |-> total, totalPages |-> totalPages]

MovieFault(kind) == MovieResponse(kind, FALSE, FALSE, <<>>, FALSE, FALSE, 0, 0)

\* A response to GET /categories
CategoryResponse(kind, success, hasData, data) ==
    [kind |-> kind, success |-> success, hasData |-> hasData, data |-> data]

CategoryFault(kind) == CategoryResponse(kind, FALSE, FALSE, <<>>)

Request(i, ep, p, l) == [inv |-> i, ep |-> ep, page |-> p, limit |-> l]

(***************************************************************************)
(* The upstream server.                                                    *)
(***************************************************************************)
Min(a, b) == IF a < b THEN a ELSE b

CeilDiv(a, b) == (a + b - 1) \div b

\* Faithful server: the catalog 1..env.catalog in consecutive pages of
\* min(env.pageSize, limit) movies.
FaithfulPage(p, l) ==
    LET size == Min(env.pageSize, l)
        lo == (p - 1) * size + 1
        hi == Min(p * size, env.catalog)
    IN  MovieResponse("envelope", TRUE, TRUE,
                      [k \in 1..(IF hi >= lo THEN hi - lo + 1 ELSE 0) |-> CatalogMovie(lo + k - 1)],
                      TRUE, p * size < env.catalog,
                      env.catalog, CeilDiv(env.catalog, size))

\* Arbitrary server: faults, failed envelopes, envelopes with data or
\* pagination missing, and totals that disagree with hasNextPage.
ArbitraryEnvelopes ==
    {MovieResponse("envelope", FALSE, hd, IF hd THEN <<MovieA>> ELSE <<>>, hp, hp, 0, 0) :
        hd \in BOOLEAN, hp \in BOOLEAN}
    \cup {MovieResponse("envelope", TRUE, hd, <<>>, hp, hp, 9, 9) :
        hd \in BOOLEAN, hp \in BOOLEAN}
    \cup {MovieResponse("envelope", TRUE, TRUE, d, FALSE, FALSE, 0, 0) : d \in MovieData}
    \cup {MovieResponse("envelope", TRUE, TRUE, d, TRUE, hn, t, t) :
        d \in MovieData, hn \in BOOLEAN, t \in {0, 9}}

\* The response tells the loop to go on to the next page.
Continues(r) ==
    /\ r.kind = "envelope"
    /\ r.success /\ r.hasData /\ Len(r.data) > 0
    /\ r.hasPagination /\ r.hasNextPage

TaggedResponses(i, p) ==
    {MovieFault("networkFault"),
     MovieResponse("envelope", FALSE, FALSE, <<>>, FALSE, FALSE, 0, 0)}
    \cup {MovieResponse("envelope", TRUE, TRUE, <<TaggedMovie(i, p)>>, TRUE, hn, 0, 0) :
            hn \in BOOLEAN}

\* Every response the server can give invocation i for page p with limit l.
\* The bounded servers stop reporting a next page after their last page.
MovieResponses(i, p, l) ==
    CASE env.mode = "faithful" -> {FaithfulPage(p, l)}
      [] env.mode = "arbitrary" ->
            {r \in {MovieFault(k) : k \in FaultKinds} \cup ArbitraryEnvelopes :
                p >= MaxPages => ~Continues(r)}
      [] env.mode = "tagged" ->
            {r \in TaggedResponses(i, p) : p >= MaxTagPages => ~Continues(r)}

CategoryResponses(i) ==
    IF env.mode = "tagged"
    THEN {CategoryFault("networkFault"),
          CategoryResponse("envelope", TRUE, TRUE, <<Category(i, <<"k">>)>>)}
    ELSE {CategoryFault(k) : k \in FaultKinds}
         \cup {CategoryResponse("envelope", FALSE, TRUE, <<CategoryA>>),
               CategoryResponse("envelope", TRUE, FALSE, <<>>)}
         \cup {CategoryResponse("envelope", TRUE, TRUE, d) : d \in CategoryData}

(***************************************************************************)
(* fetchSitemapData.                                                       *)
(***************************************************************************)
limit == 500

\* The cell holding the locals of invocation i: every call has its own frame.
FrameShared(i) == 1

Frame(i) == i

\* if (moviesData.success && moviesData.data && moviesData.data.length > 0)
PageOkIgnoringSuccess(r) == r.hasData /\ Len(r.data) > 0

PageOk(r) == r.success /\ r.hasData /\ Len(r.data) > 0

\* if (moviesData.pagination && moviesData.pagination.hasNextPage)
HasNextByTotalPages(r, p) == r.hasPagination /\ p < r.totalPages

HasNext(r, p) == r.hasPagination /\ r.hasNextPage

\* page++
NextPageSkipping(p) == p + 2

NextPage(p) == p + 1

NoResult ==
    [returned |-> FALSE, movies |-> <<>>, categoriesDefined |-> TRUE, categories |-> <<>>]

Returned(movies, categoriesDefined, categories) ==
    [returned |-> TRUE, movies |-> movies, categoriesDefined |-> categoriesDefined,
     categories |-> categories]

\* catch (error) { return { movies: [], categories: [] } }
Caught == Returned(<<>>, TRUE, <<>>)

\* const categories = categoriesData.success ? categoriesData.data : []
CategoriesOf(movies, r) ==
    IF r.success THEN Returned(movies, r.hasData, r.data) ELSE Returned(movies, TRUE, <<>>)

\* GET is called: fetchSitemapData initialises its locals, enters the loop and
\* issues the request for page 1.
Begin(i) ==
    /\ i \in env.clients
    /\ pc[i] = "idle"
    /\ allMovies' = [allMovies EXCEPT ![Frame(i)] = <<>>]
    /\ page' = [page EXCEPT ![Frame(i)] = 1]
    /\ hasMore' = [hasMore EXCEPT ![Frame(i)] = TRUE]
    /\ inflight' = inflight \cup {Request(i, "movies", 1, limit)}
    /\ reqLog' = [reqLog EXCEPT ![i] = Append(@, Request(i, "movies", 1, limit))]
    /\ pc' = [pc EXCEPT ![i] = "awaitMovies"]
    /\ UNCHANGED <<env, respLog, catLog, result, response, api>>

\* The awaited movie page arrives (fetch, then json): one turn of the while
\* loop, up to the next await.
ReceiveMovies(i) ==
    /\ pc[i] = "awaitMovies"
    /\ \E req \in inflight :
        /\ req.inv = i /\ req.ep = "movies"
        /\ \E r \in MovieResponses(i, req.page, req.limit) :
            LET f == Frame(i)
                ok == PageOk(r)
                acc == IF ok THEN allMovies[f] \o r.data ELSE allMovies[f]
                more == ok /\ HasNext(r, page[f])
                pg == IF more THEN NextPage(page[f]) ELSE page[f]
                next == IF more THEN Request(i, "movies", pg, limit)
                        ELSE Request(i, "categories", 0, 0)
            IN  /\ respLog' = [respLog EXCEPT ![i] = Append(@, r)]
                /\ IF r.kind # "envelope"
                   THEN /\ result' = [result EXCEPT ![i] = Caught]
                        /\ pc' = [pc EXCEPT ![i] = "returned"]
                        /\ inflight' = inflight \ {req}
                        /\ UNCHANGED <<allMovies, page, hasMore, reqLog>>
                   ELSE /\ allMovies' = [allMovies EXCEPT ![f] = acc]
                        /\ page' = [page EXCEPT ![f] = pg]
                        /\ hasMore' = [hasMore EXCEPT ![f] = more]
                        /\ inflight' = (inflight \ {req}) \cup {next}
                        /\ reqLog' = [reqLog EXCEPT ![i] = Append(@, next)]
                        /\ pc' = [pc EXCEPT ![i] =
                                    IF more THEN "awaitMovies" ELSE "awaitCategories"]
                        /\ UNCHANGED result
    /\ UNCHANGED <<env, catLog, response, api>>

\* The awaited categories response arrives: fetchSitemapData returns.
ReceiveCategories(i) ==
    /\ pc[i] = "awaitCategories"
    /\ \E req \in inflight :
        /\ req.inv = i /\ req.ep = "categories"
        /\ inflight' = inflight \ {req}
        /\ \E r \in CategoryResponses(i) :
            /\ catLog' = [catLog EXCEPT ![i] = Append(@, r)]
            /\ result' = [result EXCEPT ![i] =
                        IF r.kind # "envelope" THEN Caught
                        ELSE CategoriesOf(allMovies[Frame(i)], r)]
    /\ pc' = [pc EXCEPT ![i] = "returned"]
    /\ UNCHANGED <<env, allMovies, page, hasMore, reqLog, respLog, response, api>>

(***************************************************************************)
(* GET: the sitemap document.                                              *)
(*                                                                         *)
(* The document is the sequence of the pieces GET appends to `sitemap`:    *)
(* the header, the root entry, one piece per static page, per category and *)
(* per movie, and the closing tag.  A piece is a sequence of tokens, a     *)
(* token being markup of the template (tag) around interpolated text.      *)
(***************************************************************************)
Tok(tag, text) == [tag |-> tag, text |-> text]

DefaultSiteUrl == <<"https://filmyfly.work">>

SiteUrls == {DefaultSiteUrl, DefaultSiteUrl \o <<"/">>}

\* siteUrl.replace(/\/$/, '')
StripTrailingSlash(url) ==
    IF Len(url) > 0 /\ url[Len(url)] = "/" THEN SubSeq(url, 1, Len(url) - 1) ELSE url

\* new Date().toISOString().split('T')[0]
currentDate == <<"YYYY-MM-DD">>

staticPages ==
    << [path |-> <<"/page/privacy-policy">>, priority |-> <<"0.7">>, changefreq |-> <<"monthly">>],
       [path |-> <<"/page/contact-us">>, priority |-> <<"0.7">>, changefreq |-> <<"monthly">>],
       [path |-> <<"/page/about-us">>, priority |-> <<"0.7">>, changefreq |-> <<"monthly">>],
       [path |-> <<"/page/dmca">>, priority |-> <<"0.7">>, changefreq |-> <<"monthly">>],
       [path |-> <<"/page/how-to-download-movie">>, priority |-> <<"0.8">>, changefreq |-> <<"monthly">>],
       [path |-> <<"/search">>, priority |-> <<"0.6">>, changefreq |-> <<"weekly">>] >>

Header == <<Tok("?xml", <<>>), Tok("urlset", <<>>)>>

Footer == <<Tok("/urlset", <<>>)>>

UrlOpen(loc, changefreq, priority) ==
    << Tok("url", <<>>), Tok("loc", loc), Tok("lastmod", currentDate),
       Tok("changefreq", changefreq), Tok("priority", priority) >>

UrlClose == <<Tok("/url", <<>>)>>

RootEntry(baseUrl) == UrlOpen(baseUrl \o <<"/">>, <<"daily">>, <<"1.0">>) \o UrlClose

StaticEntry(baseUrl, sp) == UrlOpen(baseUrl \o sp.path, sp.changefreq, sp.priority) \o UrlClose

CategoryEntry(baseUrl, category) ==
    UrlOpen(baseUrl \o <<"/category/">> \o DecimalDigits(category.id) \o <<"/">>
                \o Str(category.slug),
            <<"weekly">>, <<"0.9">>) \o UrlClose

\* if (movie.thumbnail) { ... }
ImageBlockAlways(movie) ==
    << Tok("image:image", <<>>),
       Tok("image:loc", escapeXml(movie.thumbnail)),
       Tok("image:title", escapeXml(movie.title)),
       Tok("/image:image", <<>>) >>

ImageBlock(movie) ==
    IF Truthy(movie.thumbnail)
    THEN << Tok("image:image", <<>>),
            Tok("image:loc", escapeXml(movie.thumbnail)),
            Tok("image:title", escapeXml(movie.title)),
            Tok("/image:image", <<>>) >>
    ELSE <<>>

MovieEntry(baseUrl, movie) ==
    UrlOpen(baseUrl \o <<"/">> \o Str(movie.slug), <<"weekly">>, <<"0.8">>)
        \o ImageBlock(movie) \o UrlClose

\* escapeXml(movie.title) with the title missing: undefined.replace is a TypeError.
MovieEntryThrows(movie) == Truthy(movie.thumbnail) /\ movie.title = Undef

Sitemap(baseUrl, categories, movies) ==
    <<Header>> \o <<RootEntry(baseUrl)>>
        \o [k \in 1..Len(staticPages) |-> StaticEntry(baseUrl, staticPages[k])]
        \o [k \in 1..Len(categories) |-> CategoryEntry(baseUrl, categories[k])]
        \o [k \in 1..Len(movies) |-> MovieEntry(baseUrl, movies[k])]
        \o <<Footer>>

NoResponse == [kind |-> "none", status |-> 0, body |-> <<>>, contentType |-> "", cacheControl |-> ""]

Rejected == [kind |-> "rejected", status |-> 0, body |-> <<>>, contentType |-> "", cacheControl |-> ""]

Ok200(body) ==
    [kind |-> "response", status |-> 200, body |-> body,
     contentType |-> "application/xml; charset=utf-8",
     cacheControl |-> "public, max-age=3600"]

\* GET after `await fetchSitemapData()`: build the document and respond.
\* categories.forEach on undefined and escapeXml(undefined) throw, and GET has
\* no handler around them.
BuildSitemap(i) ==
    /\ pc[i] = "returned"
    /\ LET res == result[i]
           baseUrl == StripTrailingSlash(env.siteUrl)
       IN  response' = [response EXCEPT ![i] =
             IF ~res.categoriesDefined THEN Rejected
             ELSE IF \E k \in 1..Len(res.movies) : MovieEntryThrows(res.movies[k]) THEN Rejected
             ELSE Ok200(Sitemap(baseUrl, res.categories, res.movies))]
    /\ pc' = [pc EXCEPT ![i] = "done"]
    /\ UNCHANGED <<env, allMovies, page, hasMore, inflight, reqLog, respLog, catLog, result, api>>

(***************************************************************************)
(* Specification of one sitemap request.                                   *)
(***************************************************************************)
Env(mode, catalog, pageSize, siteUrl, clients) ==
    [mode |-> mode, catalog |-> catalog, pageSize |-> pageSize, siteUrl |-> siteUrl,
     clients |-> clients]

ApiIdle ==
    [pc |-> "idle", fn |-> "none", url |-> <<>>, fetches |-> 0, bodyReads |-> 0,
     settled |-> "none", status |-> 0, body |-> "none", outcome |-> "pending",
     value |-> [success |-> FALSE, error |-> <<>>, json |-> "none"]]

InitSitemap ==
    /\ pc = [i \in Invocations |-> "idle"]
    /\ allMovies = [i \in Invocations |-> <<>>]
    /\ page = [i \in Invocations |-> 1]
    /\ hasMore = [i \in Invocations |-> TRUE]
    /\ inflight = {}
    /\ reqLog = [i \in Invocations |-> <<>>]
    /\ respLog = [i \in Invocations |-> <<>>]
    /\ catLog = [i \in Invocations |-> <<>>]
    /\ result = [i \in Invocations |-> NoResult]
    /\ response = [i \in Invocations |-> NoResponse]

\* Catalog sizes around the batch size, and the catalog of the fix's write-up.
DocumentedCatalog == 2568

BatchCatalogs == {limit - 1, limit, limit + 1, 2 * limit, DocumentedCatalog}

SingleEnvs ==
    {Env("arbitrary", 0, 1, u, {1}) : u \in SiteUrls}
    \cup {Env("faithful", n, s, DefaultSiteUrl, {1}) : n \in 0..MaxCatalog, s \in 1..MaxPageSize}
    \cup {Env("faithful", n, limit, DefaultSiteUrl, {1}) : n \in BatchCatalogs}

Init ==
    /\ env \in SingleEnvs
    /\ InitSitemap
    /\ api = ApiIdle

Next ==
    \/ \E i \in Invocations : Begin(i)
    \/ \E i \in Invocations : ReceiveMovies(i)
    \/ \E i \in Invocations : ReceiveCategories(i)
    \/ \E i \in Invocations : BuildSitemap(i)

Spec == Init /\ [][Next]_vars

(***************************************************************************)
(* Observations used by the properties.                                    *)
(***************************************************************************)
\* The data of the first k movie-page responses, in page order.
RECURSIVE ConcatData(_, _)
ConcatData(log, k) == IF k = 0 THEN <<>> ELSE ConcatData(log, k - 1) \o log[k].data

\* The movie-page requests invocation i has issued, in order.
MovieRequests(i) == SelectSeq(reqLog[i], LAMBDA q : q.ep = "movies")

CategoryRequests(i) == SelectSeq(reqLog[i], LAMBDA q : q.ep = "categories")

IsPrefix(a, b) == Len(a) <= Len(b) /\ SubSeq(b, 1, Len(a)) = a

\* The pagination loop of invocation i has stopped.
LoopStopped(i) == pc[i] \in {"awaitCategories", "returned", "done"}

\* An envelope that reports failure or carries no movie.
FailedOrEmpty(r) == r.kind = "envelope" /\ (~r.success \/ ~r.hasData \/ r.data = <<>>)

\* An envelope that reports success and carries at least one movie.
SuccessfulNonEmpty(r) == r.kind = "envelope" /\ r.success /\ r.hasData /\ r.data # <<>>

WholeCatalog == [k \in 1..env.catalog |-> CatalogMovie(k)]

(***************************************************************************)
(* C1.  Against a server that serves its catalog faithfully in consecutive *)
(* pages, fetchSitemapData returns as movies the whole catalog in page     *)
(* order, nothing omitted, nothing duplicated.                             *)
(* Fails: a fault of the later categories fetch is caught by the handler   *)
(* that also discards the aggregated movies (see C3).                      *)
(***************************************************************************)
C1_FaithfulCatalogReturnedWhole ==
    (env.mode = "faithful" /\ result[1].returned) => result[1].movies = WholeCatalog

\* What does hold: when the loop stops, the accumulator is the whole catalog.
LoopAggregatesWholeCatalog ==
    (env.mode = "faithful" /\ LoopStopped(1)) => allMovies[1] = WholeCatalog

(***************************************************************************)
(* C2.  GET never surfaces an error: whatever the upstream calls do, it    *)
(* completes with a status-200 response whose body is a complete sitemap   *)
(* document (urlset opened and closed).                                    *)
(* Fails: a categories envelope with success=true and no data makes        *)
(* categories undefined, and categories.forEach throws outside any handler.*)
(***************************************************************************)
C2_GetNeverSurfacesError ==
    pc[1] = "done" =>
        /\ response[1].kind = "response"
        /\ response[1].status = 200
        /\ Len(response[1].body) >= 2
        /\ Head(response[1].body) = Header
        /\ response[1].body[Len(response[1].body)] = Footer

(***************************************************************************)
(* C3.  A failed fetch empties only its own section: when the categories   *)
(* fetch fails (fault or success=false) the movies already aggregated are  *)
(* still returned, and when a movie-page fetch fails the categories are    *)
(* still fetched and returned.                                             *)
(* Fails: both fetches sit in one try block whose handler returns          *)
(* { movies: [], categories: [] }.                                         *)
(***************************************************************************)
C3_FailureEmptiesOnlyItsSection ==
    result[1].returned =>
        /\ (catLog[1] # <<>> /\ (catLog[1][1].kind # "envelope" \/ ~catLog[1][1].success))
              => result[1].movies = allMovies[1]
        /\ (respLog[1] # <<>> /\ ~SuccessfulNonEmpty(respLog[1][Len(respLog[1])]))
              => /\ Len(CategoryRequests(1)) = 1
                 /\ (catLog[1] # <<>> /\ catLog[1][1].kind = "envelope"
                        /\ catLog[1][1].success /\ catLog[1][1].hasData)
                      => result[1].categories = catLog[1][1].data

(***************************************************************************)
(* C4.  A movie-page envelope with success=false or with empty data stops  *)
(* pagination at once: it is the last movie response, its page is the last *)
(* movie page requested (never again, and none later), and the aggregate   *)
(* is exactly the data of the pages before it; when it is the first page,  *)
(* fetchSitemapData returns no movie.                                      *)
(***************************************************************************)
C4_FailedPageStopsPagination ==
    \A k \in 1..Len(respLog[1]) :
        FailedOrEmpty(respLog[1][k]) =>
            /\ k = Len(respLog[1])
            /\ Len(MovieRequests(1)) = k
            /\ \A j \in 1..k : MovieRequests(1)[j].page = j
            /\ ~\E q \in inflight : q.ep = "movies"
            /\ allMovies[1] = ConcatData(respLog[1], k - 1)
            /\ (k = 1 /\ result[1].returned) => result[1].movies = <<>>

C4_Witness ==
    /\ pc[1] = "done"
    /\ Len(respLog[1]) = 2
    /\ respLog[1][2].kind = "envelope" /\ ~respLog[1][2].success /\ respLog[1][2].hasData
    /\ respLog[1][2].hasPagination /\ respLog[1][2].hasNextPage
    /\ result[1].movies = respLog[1][1].data

(***************************************************************************)
(* C6.  The document GET builds holds, in this order, exactly one root     *)
(* entry, exactly six static-page entries, one entry per category and one  *)
(* entry per aggregated movie; a movie's entry has an image block if and   *)
(* only if the movie's thumbnail is non-empty.                             *)
(***************************************************************************)
CountTag(piece, tag) == Cardinality({j \in 1..Len(piece) : piece[j].tag = tag})

LocOf(piece) == piece[CHOOSE j \in 1..Len(piece) : piece[j].tag = "loc"].text

IsUrlEntry(piece) ==
    /\ Len(piece) >= 2
    /\ piece[1].tag = "url" /\ piece[Len(piece)].tag = "/url"
    /\ CountTag(piece, "url") = 1 /\ CountTag(piece, "/url") = 1
    /\ CountTag(piece, "loc") = 1

StaticPaths ==
    << <<"/page/privacy-policy">>, <<"/page/contact-us">>, <<"/page/about-us">>,
       <<"/page/dmca">>, <<"/page/how-to-download-movie">>, <<"/search">> >>

C6_DocumentStructure ==
    response[1].kind = "response" =>
        LET body == response[1].body
            cats == result[1].categories
            movies == result[1].movies
            nc == Len(cats)
            nm == Len(movies)
            base == DefaultSiteUrl
        IN  /\ Len(body) = 1 + 1 + 6 + nc + nm + 1
            /\ \A k \in 2..(Len(body) - 1) : IsUrlEntry(body[k])
            /\ CountTag(body[1], "url") = 0 /\ CountTag(body[Len(body)], "url") = 0
            /\ LocOf(body[2]) = base \o <<"/">>
            /\ \A k \in 1..6 : LocOf(body[2 + k]) = base \o StaticPaths[k]
            /\ \A k \in 1..nc :
                LocOf(body[8 + k]) =
                    base \o <<"/category/">> \o DecimalDigits(cats[k].id) \o <<"/">>
                         \o Str(cats[k].slug)
            /\ \A k \in 1..nm :
                /\ LocOf(body[8 + nc + k]) = base \o <<"/">> \o Str(movies[k].slug)
                /\ CountTag(body[8 + nc + k], "image:image") =
                        (IF movies[k].thumbnail \notin {Undef, <<>>} THEN 1 ELSE 0)
            /\ \A k \in 2..(8 + nc) : CountTag(body[k], "image:image") = 0

C6_Witness ==
    /\ response[1].kind = "response"
    /\ Len(result[1].categories) = 2
    /\ \E k \in 1..Len(result[1].movies) : result[1].movies[k].thumbnail = <<>>
    /\ \E k \in 1..Len(result[1].movies) : result[1].movies[k].thumbnail = Undef
    /\ \E k \in 1..Len(result[1].movies) : Truthy(result[1].movies[k].thumbnail)

(***************************************************************************)
(* C7.  No raw ampersand, angle bracket, double quote or apostrophe taken  *)
(* from the input (movie title, thumbnail, movie slug, category id,        *)
(* category slug) appears unescaped in the text of the document.           *)
(* Fails: movie.slug and category.slug are interpolated into <loc> without *)
(* escapeXml.                                                              *)
(***************************************************************************)
Entities == {EntAmp, EntLt, EntGt, EntQuot, EntApos}

\* Every special character of the text is the ampersand that opens an entity.
WellEscaped(text) ==
    \A j \in 1..Len(text) :
        /\ text[j] \notin {"<", ">", "\"", "'"}
        /\ text[j] = "&" =>
             \E e \in Entities :
                j + Len(e) - 1 <= Len(text) /\ SubSeq(text, j, j + Len(e) - 1) = e

C7_NoRawSpecialInDocument ==
    response[1].kind = "response" =>
        \A k \in 1..Len(response[1].body) :
            \A j \in 1..Len(response[1].body[k]) : WellEscaped(response[1].body[k][j].text)

\* What does hold: the two fields passed through escapeXml are escaped, the
\* ampersand first, so a title of the five characters becomes the five entities.
ImageTextEscaped ==
    /\ escapeXml(Specials) = EntAmp \o EntLt \o EntGt \o EntQuot \o EntApos
    /\ response[1].kind = "response" =>
        \A k \in 1..Len(response[1].body) :
            \A j \in 1..Len(response[1].body[k]) :
                response[1].body[k][j].tag \in {"image:loc", "image:title"}
                    => WellEscaped(response[1].body[k][j].text)

(***************************************************************************)
(* C9.  hasNextPage alone decides continuation: after a successful         *)
(* non-empty page the next page is requested if and only if that           *)
(* response's pagination.hasNextPage is true, whatever total and           *)
(* totalPages say; the loop has no page cap of its own: while the server   *)
(* reports a next page the next request is in flight, and once it reports  *)
(* none the loop has stopped; a catalog of N movies served in batches of b (b = 500   *)
(* when the server honours the limit) takes exactly max(1, ceil(N/b))      *)
(* movie requests and aggregates N entries.                                *)
(***************************************************************************)
Max(a, b) == IF a > b THEN a ELSE b

C9_HasNextPageAloneDecides ==
    /\ \A k \in 1..Len(respLog[1]) :
          SuccessfulNonEmpty(respLog[1][k]) =>
              (Len(MovieRequests(1)) > k
                  <=> (respLog[1][k].hasPagination /\ respLog[1][k].hasNextPage))
    /\ (env.mode = "faithful" /\ LoopStopped(1)) =>
          /\ Len(MovieRequests(1)) = Max(1, CeilDiv(env.catalog, Min(env.pageSize, 500)))
          /\ Len(allMovies[1]) = env.catalog
    /\ \A k \in 1..Len(respLog[1]) :
          (SuccessfulNonEmpty(respLog[1][k]) /\ k = Len(respLog[1])) =>
              IF respLog[1][k].hasPagination /\ respLog[1][k].hasNextPage
              THEN pc[1] = "awaitMovies" /\ Request(1, "movies", k + 1, 500) \in inflight
              ELSE LoopStopped(1)

C9_Witness ==
    /\ env.mode = "faithful" /\ env.catalog = 2568 /\ env.pageSize = 500
    /\ pc[1] = "done"
    /\ Len(MovieRequests(1)) = 6
    /\ Len(result[1].movies) = 2568

\* The arbitrary server's totals contradict hasNextPage in both directions.
C9_WitnessAdvisoryTotals ==
    /\ env.mode = "arbitrary" /\ pc[1] = "done"
    /\ Len(respLog[1]) = 3
    /\ respLog[1][1].hasNextPage /\ respLog[1][1].totalPages = 0
    /\ respLog[1][2].hasNextPage /\ respLog[1][2].totalPages = 9
    /\ SuccessfulNonEmpty(respLog[1][3])
    /\ respLog[1][3].hasPagination /\ ~respLog[1][3].hasNextPage
    /\ respLog[1][3].totalPages = 9

(***************************************************************************)
(* C10.  Within one invocation the upstream requests are serial and        *)
(* ordered: at most one is in flight; the movie pages are requested as     *)
(* 1, 2, 3, ... each with limit 500; page k+1 is requested only after the  *)
(* response for page k has been received and appended; the single          *)
(* categories request is issued only after the pagination loop has         *)
(* stopped.                                                                *)
(***************************************************************************)
C10_RequestsSerialAndOrdered ==
    LET mreqs == MovieRequests(1)
        creqs == CategoryRequests(1)
    IN  /\ Cardinality(inflight) <= 1
        /\ \A q \in inflight : reqLog[1] # <<>> /\ q = reqLog[1][Len(reqLog[1])]
        /\ \A k \in 1..Len(mreqs) : mreqs[k].page = k /\ mreqs[k].limit = 500
        /\ Len(mreqs) <= Len(respLog[1]) + 1
        /\ \A k \in 1..(Len(mreqs) - 1) :
              /\ respLog[1][k].data # <<>>
              /\ IsPrefix(ConcatData(respLog[1], k), allMovies[1])
        /\ Len(creqs) <= 1
        /\ Len(creqs) = 1 =>
              /\ reqLog[1][Len(reqLog[1])].ep = "categories"
              /\ Len(respLog[1]) = Len(mreqs)
              /\ ~hasMore[1]
              /\ LoopStopped(1)

C10_Witness ==
    /\ pc[1] = "awaitCategories"
    /\ Len(reqLog[1]) = 4
    /\ Len(MovieRequests(1)) = 3
    /\ inflight = {Request(1, "categories", 0, 0)}
    /\ Len(allMovies[1]) >= 3

(***************************************************************************)
(* Specification of concurrent sitemap requests: every invocation of GET   *)
(* runs the same code, and their awaits interleave in any order.           *)
(***************************************************************************)
InitConcurrent ==
    /\ env = Env("tagged", 0, 1, DefaultSiteUrl, Invocations)
    /\ InitSitemap
    /\ api = ApiIdle

SpecConcurrent == InitConcurrent /\ [][Next]_vars

\* What one invocation running alone aggregates from the movie-page responses
\* in log: the data of every successful non-empty page, in order.
RECURSIVE SoloMovies(_, _)
SoloMovies(log, k) ==
    IF k = 0 THEN <<>>
    ELSE SoloMovies(log, k - 1)
            \o (IF SuccessfulNonEmpty(log[k]) THEN log[k].data ELSE <<>>)

\* What one invocation running alone returns after the responses in log and clog.
SoloResult(log, clog) ==
    IF log # <<>> /\ log[Len(log)].kind # "envelope" THEN Returned(<<>>, TRUE, <<>>)
    ELSE IF clog = <<>> THEN NoResult
    ELSE IF clog[1].kind # "envelope" THEN Returned(<<>>, TRUE, <<>>)
    ELSE IF clog[1].success
         THEN Returned(SoloMovies(log, Len(log)), clog[1].hasData, clog[1].data)
    ELSE Returned(SoloMovies(log, Len(log)), TRUE, <<>>)

(***************************************************************************)
(* C8.  Concurrent sitemap requests do not share aggregation state: at     *)
(* every point each invocation's accumulator and page counter are what its *)
(* own responses alone produce, each returns exactly what it would return  *)
(* alone against the same responses, and no movie served to one            *)
(* invocation appears in another's accumulator or result.                  *)
(***************************************************************************)
C8_InvocationsIndependent ==
    \A i \in Invocations :
        /\ pc[i] # "idle" =>
              /\ allMovies[i] = SoloMovies(respLog[i], Len(respLog[i]))
              /\ page[i] = Len(MovieRequests(i))
              /\ \A k \in 1..Len(MovieRequests(i)) : MovieRequests(i)[k].page = k
        /\ pc[i] = "idle" => allMovies[i] = <<>>
        /\ result[i] = SoloResult(respLog[i], catLog[i])
        /\ \A k \in 1..Len(allMovies[i]) : allMovies[i][k].id \div 100 = i
        /\ \A k \in 1..Len(result[i].movies) : result[i].movies[k].id \div 100 = i
        /\ \A k \in 1..Len(result[i].categories) : result[i].categories[k].id = i

\* Two invocations in the middle of their loops at once, each holding its own
\* first page and waiting for its own second page.
C8_Witness ==
    /\ inflight = {Request(1, "movies", 2, 500), Request(2, "movies", 2, 500)}
    /\ allMovies[1] = <<TaggedMovie(1, 1)>>
    /\ allMovies[2] = <<TaggedMovie(2, 1)>>

C8_WitnessBothDone ==
    /\ pc[1] = "done" /\ pc[2] = "done"
    /\ Len(result[1].movies) = 2 /\ Len(result[2].movies) = 1
    /\ result[1].categories # <<>> /\ result[2].categories # <<>>

(***************************************************************************)
(* api.ts: searchMovies (guarded) and getMovies (unguarded, like every     *)
(* other fetch function of the client).  One call per behaviour.           *)
(***************************************************************************)
MaxApiPage == 2

\* A UTF-16 surrogate without its pair: encodeURIComponent throws URIError on it.
LoneSurrogate == "\\uD800"

Queries == { <<"a">>, <<"a", " ", "&", "%">>, <<"a", LoneSurrogate>> }

\* Statuses a fetch Response can carry.
Statuses == {200, 201, 299, 300, 304, 400, 404, 500, 503}

\* Parsed bodies: a successful envelope, a failed envelope, the JSON value null.
JsonBodies == {"envelopeSuccess", "envelopeFailure", "null"}

\* What a rejected fetch rejects with: an Error, or a value that is no Error.
FetchFaults == {[isError |-> TRUE, message |-> <<"fetch failed">>],
                [isError |-> FALSE, message |-> <<>>]}

RECURSIVE encodeURIComponent(_)
encodeURIComponent(q) ==
    IF q = <<>> THEN <<>>
    ELSE (CASE Head(q) = " " -> <<"%", "2", "0">>
            [] Head(q) = "&" -> <<"%", "2", "6">>
            [] Head(q) = "%" -> <<"%", "2", "5">>
            [] OTHER -> <<Head(q)>>) \o encodeURIComponent(Tail(q))

EncodeThrows(q) == \E j \in 1..Len(q) : q[j] = LoneSurrogate

\* res.ok
ResOkAlways(status) == TRUE

ResOk(status) == status >= 200 /\ status <= 299

ApiCall(fn, phase, url, fetches, bodyReads, settled, status, body, outcome, value) ==
    [pc |-> phase, fn |-> fn, url |-> url, fetches |-> fetches, bodyReads |-> bodyReads,
     settled |-> settled, status |-> status, body |-> body, outcome |-> outcome,
     value |-> value]

NoValue == [success |-> FALSE, error |-> <<>>, json |-> "none"]

\* return { success: false, error: error instanceof Error ? error.message : '...' }
Failure(fault) ==
    [success |-> FALSE,
     error |-> IF fault.isError THEN fault.message ELSE <<"Failed to search movies">>,
     json |-> "none"]

\* return json
Parsed(body) == [success |-> body = "envelopeSuccess", error |-> <<>>, json |-> body]

ErrorOf(message) == [isError |-> TRUE, message |-> message]

\* catch (error) { ... } of searchMovies
SearchCatch(a, fault) ==
    [a EXCEPT !.pc = "done", !.outcome = "returned", !.value = Failure(fault)]

\* No handler: the fault rejects the call.
Propagate(a) == [a EXCEPT !.pc = "done", !.outcome = "rejected"]

SearchUrl(query, p, l) ==
    <<"/search?q=">> \o encodeURIComponent(query) \o <<"&page=">> \o DecimalDigits(p)
        \o <<"&limit=">> \o DecimalDigits(l)

\* searchMovies is called: the URL is built and fetch is called, inside try.
CallSearch ==
    /\ api.pc = "idle"
    /\ \E query \in Queries, p \in 1..MaxApiPage :
        api' = IF EncodeThrows(query)
               THEN SearchCatch(ApiCall("searchMovies", "done", <<>>, 0, 0, "none", 0, "none",
                                        "pending", NoValue),
                                ErrorOf(<<"URI malformed">>))
               ELSE ApiCall("searchMovies", "awaitFetch", SearchUrl(query, p, 20), 1, 0,
                            "none", 0, "none", "pending", NoValue)
    /\ UNCHANGED <<env, sitemapVars>>

\* await fetch(...) settles, then if (!res.ok) throw, then res.json() is called.
SearchFetchSettles ==
    /\ api.pc = "awaitFetch" /\ api.fn = "searchMovies"
    /\ \/ \E fault \in FetchFaults :
            api' = SearchCatch([api EXCEPT !.settled = "fault"], fault)
       \/ \E status \in Statuses :
            api' = IF ~ResOk(status)
                   THEN SearchCatch([api EXCEPT !.settled = "status", !.status = status],
                                    ErrorOf(<<"Search API returned ">> \o DecimalDigits(status)))
                   ELSE [api EXCEPT !.settled = "status", !.status = status,
                                    !.bodyReads = @ + 1, !.pc = "awaitJson"]
    /\ UNCHANGED <<env, sitemapVars>>

\* await res.json() settles.
SearchJsonSettles ==
    /\ api.pc = "awaitJson" /\ api.fn = "searchMovies"
    /\ \/ api' = SearchCatch([api EXCEPT !.body = "unparseable"],
                             ErrorOf(<<"Unexpected token">>))
       \/ \E body \in JsonBodies :
            api' = [api EXCEPT !.body = body, !.pc = "done", !.outcome = "returned",
                               !.value = Parsed(body)]
    /\ UNCHANGED <<env, sitemapVars>>

MoviesUrl(p, l) ==
    <<"/movies?page=">> \o DecimalDigits(p) \o <<"&limit=">> \o DecimalDigits(l)

\* getMovies is called.
CallGetMovies ==
    /\ api.pc = "idle"
    /\ \E p \in 1..MaxApiPage :
        api' = ApiCall("getMovies", "awaitFetch", MoviesUrl(p, 20), 1, 0, "none", 0, "none",
                       "pending", NoValue)
    /\ UNCHANGED <<env, sitemapVars>>

\* await fetch(...) settles; the status is not looked at.
GetMoviesFetchSettles ==
    /\ api.pc = "awaitFetch" /\ api.fn = "getMovies"
    /\ \/ \E fault \in FetchFaults : api' = Propagate([api EXCEPT !.settled = "fault"])
       \/ \E status \in Statuses :
            api' = [api EXCEPT !.settled = "status", !.status = status,
                               !.bodyReads = @ + 1, !.pc = "awaitJson"]
    /\ UNCHANGED <<env, sitemapVars>>

\* await res.json() settles.
GetMoviesJsonSettles ==
    /\ api.pc = "awaitJson" /\ api.fn = "getMovies"
    /\ \/ api' = Propagate([api EXCEPT !.body = "unparseable"])
       \/ \E body \in JsonBodies :
            api' = [api EXCEPT !.body = body, !.pc = "done", !.outcome = "returned",
                               !.value = Parsed(body)]
    /\ UNCHANGED <<env, sitemapVars>>

InitApi ==
    /\ env = Env("arbitrary", 0, 1, DefaultSiteUrl, {})
    /\ InitSitemap
    /\ api = ApiIdle

NextApi ==
    \/ CallSearch
    \/ SearchFetchSettles
    \/ SearchJsonSettles
    \/ CallGetMovies
    \/ GetMoviesFetchSettles
    \/ GetMoviesJsonSettles

SpecApi == InitApi /\ [][NextApi]_vars

(***************************************************************************)
(* C5.  searchMovies never faults.  On a non-2xx status it returns         *)
(* {success: false, error} with the status named in the message, without   *)
(* reading the body and without a further call; a network fault or an      *)
(* unparseable body also yields {success: false, error}.  getMovies, like  *)
(* the other fetch functions, lets the same faults reject the call.        *)
(***************************************************************************)
C5_SearchGuardedOthersNot ==
    api.pc = "done" =>
        /\ api.fn = "searchMovies" =>
              /\ api.outcome = "returned"
              /\ api.fetches <= 1
              /\ (api.settled = "status" /\ (api.status < 200 \/ api.status > 299)) =>
                    /\ api.value.success = FALSE
                    /\ api.value.json = "none"
                    /\ api.value.error = <<"Search API returned ">> \o DecimalDigits(api.status)
                    /\ api.bodyReads = 0
                    /\ api.body = "none"
              /\ (api.settled = "fault" \/ api.body = "unparseable") =>
                    /\ api.value.success = FALSE
                    /\ api.value.json = "none"
                    /\ api.value.error # <<>>
        /\ api.fn = "getMovies" =>
              /\ (api.settled = "fault" \/ api.body = "unparseable") <=> api.outcome = "rejected"
              /\ api.settled = "status" => api.bodyReads = 1

C5_Witness ==
    /\ api.pc = "done" /\ api.fn = "searchMovies"
    /\ api.settled = "status" /\ api.status = 404
    /\ api.value.error = <<"Search API returned ", "4", "0", "4">>
    /\ api.outcome = "returned"

C5_WitnessGetMoviesRejects ==
    /\ api.pc = "done" /\ api.fn = "getMovies"
    /\ api.settled = "status" /\ api.status = 500 /\ api.body = "unparseable"
    /\ api.outcome = "rejected"

====
